---- MODULE Spec2Model ----
(***************************************************************************)
(* Model of the network optimisation code of TiktokAutoUploader:           *)
(*   src/tiktok_uploader/network_utils.py  (NetworkOptimizer)              *)
(*   src/tiktok_uploader/system_tuner.py   (SystemNetworkTuner)            *)
(* Each component has its own specification (SpecRetry, SpecProfile,       *)
(* SpecProbe, SpecDns, SpecTuner); the variables of the other components   *)
(* stay at their initial values.                                           *)
(*                                                                         *)
(* Python floats are modelled as exact rationals [num, den] with den > 0;  *)
(* float('inf') is the value INF.  Exceptions are those caught by          *)
(* "except Exception".                                                     *)
(***************************************************************************)
EXTENDS Integers, Sequences, FiniteSets, TLC

\* ------------------------------------------------------------------ bounds
\* Largest max_retries a caller passes to smart_retry.
MaxRetries == 5
\* Largest bandwidth (Mbps) a caller passes to the derivations.
MaxMbps == 150
\* Largest latency (ms) of a successful DNS lookup.
MaxLookupMs == 2
\* Most chunks the test download delivers.
MaxChunks == 3
\* Most bandwidth measurements started in one run of the model.
MaxMeasurements == 2
\* Most dns_lookup_test calls in progress at the same time.
MaxLookupCalls == 2
\* Most threads that call Browser.get() in one run of the model.
MaxCallers == 3

\* ------------------------------------------------------------ float values
Rat(n, d) == [num |-> n, den |-> d]
None == [none |-> TRUE]
IsNone(x) == DOMAIN x = {"none"}
RatLT(a, b) == a.num * b.den < b.num * a.den
RatLE(a, b) == a.num * b.den <= b.num * a.den
\* Python int(): truncation toward zero of n/d, d > 0.
PyInt(n, d) == IF n >= 0 THEN n \div d ELSE -((-n) \div d)
\* float('inf'), and + and < on floats that may be infinite.
Inf == [inf |-> TRUE]
IsInf(x) == DOMAIN x = {"inf"}
\* Equal floats are one value: a finite float is kept in lowest terms.
RECURSIVE Gcd(_, _)
Gcd(a, b) == IF b = 0 THEN a ELSE Gcd(b, a % b)
Norm(r) == LET g == Gcd(IF r.num < 0 THEN -r.num ELSE r.num, r.den)
           IN  Rat(r.num \div g, r.den \div g)
FAdd(a, b) == IF IsInf(a) \/ IsInf(b) THEN Inf
              ELSE Norm(Rat(a.num * b.den + b.num * a.den, a.den * b.den))
FLT(a, b) == IF IsInf(a) THEN FALSE ELSE IF IsInf(b) THEN TRUE ELSE RatLT(a, b)
Max2(a, b) == IF a >= b THEN a ELSE b
Min2(a, b) == IF a <= b THEN a ELSE b

\* ------------------------------------------------------------------ state
VARIABLES
    \* smart_retry
    rPc,              \* "idle" | "call" | "sleep" | "returned" | "raised"
    max_retries,      \* argument
    backoff_factor,   \* argument, as a rational
    attempt,          \* loop variable of range(max_retries)
    invocations,      \* outcomes of the invocations of func so far
    waits,            \* the wait_time values slept so far
    rResult,          \* what the caller gets
    \* get_retry_config / get_optimal_concurrent_connections (pure)
    call,             \* last call: op, arg, result
    prev,             \* the get_optimal_concurrent_connections call before it
    measurements,     \* number of detect_bandwidth runs started
    \* SystemNetworkTuner and its environment
    os_type,          \* self.os_type
    privileged,       \* environment: what check_root_privileges finds
    bbrQuery,         \* environment: outcome of the sysctl query of is_bbr_available
    tPc,              \* "idle" | "exec" | "done"
    dry_run,          \* argument of apply_optimizations
    commands,         \* local of apply_optimizations
    cmdIndex,         \* position of the for loop over commands
    success_count,    \* local of apply_optimizations
    subprocessLog,    \* subprocess.run calls of the current invocation, in order
    exitedZero,       \* environment: catalogue commands that exited with status 0
    privChecks,       \* check_root_privileges calls of the current invocation
    printed,          \* commands listed by the dry run
    tResult,          \* return value of apply_optimizations
    \* benchmark_dns_servers
    best_dns,         \* self.best_dns
    dPc,              \* "idle" | "loop" | "select" | "done"
    dIdx,             \* position of the for loop over DNS_SERVERS
    results,          \* local dict: name -> servers, ping_time, avg_lookup_time, total_score
    measured,         \* environment: name -> what the probes of that candidate gave
    dReturn,          \* the (name, servers) pair returned
    \* detect_bandwidth
    bPc,              \* "idle" | "request" | "stream" | "compute" | "done"
    bwCaller,         \* "direct" | "get_optimal_concurrent_connections"
    data_downloaded,  \* local, bytes
    chunks,           \* chunks iterated so far
    elapsedMs,        \* environment: time.time() - start_time, in ms
    bwError,          \* environment: the exception raised inside the try, or "none"
    bwOutcome,        \* how detect_bandwidth ended: returned value or raised
    \* dns_lookup_test
    socketTimeout,    \* process-wide socket.getdefaulttimeout()
    quietTimeout,     \* environment: socketTimeout when no call was in progress
    lk,               \* per call: pc, arguments, original_dns, raised, result
    \* get_dns_servers
    gPc,              \* "idle" | "benchmark" | "done"
    gChoice,          \* the dns_choice argument of the outermost call
    gFallbacks,       \* recursive get_dns_servers('auto') calls made
    gReturn,          \* what get_dns_servers returned
    \* create_persistent_config
    configFile,       \* /etc/sysctl.d/99-network-optimization.conf on disk
    pPc,              \* "none" | "returned": create_persistent_config was called
    pWrite,           \* what the latest call's open(config_file, 'w') did
    pReturn,          \* the latest call's return value
    \* benchmark_network
    nPc,              \* "idle" | "dns" | "bandwidth" | "done"
    report,           \* the dict benchmark_network returned
    runSelection,     \* the name benchmark_dns_servers returned in this run
    bandwidth,        \* the local "bandwidth" of benchmark_network
    runMeasured,      \* detect_bandwidth calls entered in this run
    \* cli.py: the tune and benchmark actions
    cliArgs,          \* the parsed flags
    cliPc,            \* "args" | "tune" | "benchmark" | "other" | "exit0"
    settings,         \* the dict benchmark_current_settings returned
    \* apply_optimizations invoked twice in one environment
    cmdEnv,           \* the environment: which commands succeed
    sysParams,        \* the kernel's tunable parameters that were set
    firstApply,       \* what the first invocation left
    \* Browser.get
    instance,         \* Browser.__instance: NoBrowser or the object stored
    getCall,          \* per calling thread: the line it is at, what it got
    constructed,      \* objects whose __init__ went past the singleton test
    locksHeld         \* Lock objects that are held

retryVars == <<rPc, max_retries, backoff_factor, attempt, invocations, waits, rResult>>
profileVars == <<call, prev>>
tunerVars == <<os_type, privileged, bbrQuery, tPc, dry_run, commands, cmdIndex,
               success_count, subprocessLog, exitedZero, privChecks, printed, tResult>>
dnsVars == <<best_dns, dPc, dIdx, results, measured, dReturn>>
probeVars == <<bPc, bwCaller, data_downloaded, chunks, elapsedMs, bwError, bwOutcome>>
lookupVars == <<socketTimeout, quietTimeout, lk>>
getDnsVars == <<gPc, gChoice, gFallbacks, gReturn>>
configVars == <<configFile, pPc, pWrite, pReturn>>
benchVars == <<nPc, report, runSelection, bandwidth, runMeasured>>
cliVars == <<cliArgs, cliPc, settings>>
kernelVars == <<cmdEnv, sysParams, firstApply>>
browserVars == <<instance, getCall, constructed, locksHeld>>
vars == <<retryVars, profileVars, measurements, tunerVars, dnsVars, probeVars, lookupVars, getDnsVars, configVars, benchVars, cliVars, kernelVars, browserVars>>
exceptRetry == <<profileVars, measurements, tunerVars, dnsVars, probeVars, lookupVars, getDnsVars, configVars, benchVars, cliVars, kernelVars, browserVars>>
exceptProfile == <<retryVars, measurements, tunerVars, dnsVars, probeVars, lookupVars, getDnsVars, configVars, benchVars, cliVars, kernelVars, browserVars>>
exceptTuner == <<retryVars, profileVars, measurements, dnsVars, probeVars, lookupVars, getDnsVars, configVars, benchVars, cliVars, kernelVars, browserVars>>
exceptDns == <<retryVars, profileVars, measurements, tunerVars, probeVars, lookupVars, getDnsVars, configVars, benchVars, cliVars, kernelVars, browserVars>>
exceptProbe == <<retryVars, tunerVars, dnsVars, lookupVars, getDnsVars, configVars, benchVars, cliVars, kernelVars, browserVars>>
exceptLookup == <<retryVars, profileVars, measurements, tunerVars, dnsVars, probeVars, getDnsVars, configVars, benchVars, cliVars, kernelVars, browserVars>>
exceptGetDns == <<retryVars, profileVars, measurements, tunerVars, probeVars, lookupVars, configVars, benchVars, cliVars, kernelVars, browserVars>>
exceptConfig == <<retryVars, profileVars, measurements, tunerVars, dnsVars, probeVars, lookupVars, getDnsVars, benchVars, cliVars, kernelVars, browserVars>>
exceptBench == <<retryVars, profileVars, measurements, tunerVars, dnsVars, probeVars, lookupVars, getDnsVars, configVars, cliVars, kernelVars, browserVars>>
exceptCli == <<retryVars, profileVars, measurements, tunerVars, dnsVars, probeVars, lookupVars, getDnsVars, configVars, benchVars, kernelVars, browserVars>>
exceptKernel == <<retryVars, profileVars, measurements, tunerVars, dnsVars, probeVars, lookupVars, getDnsVars, configVars, benchVars, cliVars, browserVars>>
exceptBrowser == <<retryVars, profileVars, measurements, tunerVars, dnsVars, probeVars, lookupVars, getDnsVars, configVars, benchVars, cliVars, kernelVars>>

\* ============================================================ smart_retry
\* Variant: the wait grows linearly, backoff_factor * attempt.
WaitLinear(b, k) == Rat(b.num * k, b.den)

\* backoff_factor ** attempt
RECURSIVE RatPow(_, _)
RatPow(b, k) == IF k = 0 THEN Rat(1, 1)
                ELSE Rat(b.num * RatPow(b, k - 1).num, b.den * RatPow(b, k - 1).den)

BackoffFactors == {Rat(10, 10), Rat(15, 10), Rat(20, 10)}
NoResult == [kind |-> "none"]

RetryInit ==
    /\ rPc = "idle"
    /\ max_retries = 0
    /\ backoff_factor = Rat(15, 10)
    /\ attempt = 0
    /\ invocations = <<>>
    /\ waits = <<>>
    /\ rResult = NoResult

\* smart_retry(func, max_retries=m, backoff_factor=bf): entry; range(m) is
\* empty for m = 0 and the function falls through to "return None".
smart_retry(m, bf) ==
    /\ rPc \in {"idle", "returned", "raised"}
    /\ max_retries' = m
    /\ backoff_factor' = bf
    /\ attempt' = 0
    /\ invocations' = <<>>
    /\ waits' = <<>>
    /\ IF m = 0
         THEN /\ rPc' = "returned"
              /\ rResult' = [kind |-> "None"]
         ELSE /\ rPc' = "call"
              /\ rResult' = NoResult
    /\ UNCHANGED exceptRetry

\* Variant: the last attempt is taken to be attempt number m.
OnFailureLate(a, m) == IF a = m THEN "raised" ELSE "sleep"

\* What the except clause does on the failed attempt a of m: re-raise on the
\* last one, else sleep.
OnFailure(a, m) == IF a = m - 1 THEN "raised" ELSE "sleep"

\* One iteration of the loop body: func(*args) returns or raises.
retry_attempt(ok) ==
    /\ rPc = "call"
    /\ invocations' = Append(invocations, IF ok THEN "ok" ELSE "fail")
    /\ IF ok
         THEN /\ rPc' = "returned"
              /\ rResult' = [kind |-> "value", from |-> Len(invocations) + 1]
              /\ UNCHANGED <<attempt, waits>>
         ELSE /\ rPc' = OnFailure(attempt, max_retries)
              /\ IF OnFailure(attempt, max_retries) = "raised"
                   THEN /\ rResult' = [kind |-> "exception", from |-> Len(invocations) + 1]
                        /\ UNCHANGED waits
                   ELSE /\ rResult' = NoResult
                        /\ waits' = Append(waits, RatPow(backoff_factor, attempt))
              /\ UNCHANGED attempt
    /\ UNCHANGED <<max_retries, backoff_factor, exceptRetry>>

\* time.sleep(wait_time) returns; next iteration of the for loop.
retry_wake ==
    /\ rPc = "sleep"
    /\ attempt' = attempt + 1
    /\ rPc' = "call"
    /\ UNCHANGED <<max_retries, backoff_factor, invocations, waits, rResult, exceptRetry>>

NextRetry ==
    \/ \E m \in 0..MaxRetries, bf \in BackoffFactors : smart_retry(m, bf)
    \/ \E ok \in BOOLEAN : retry_attempt(ok)
    \/ retry_wake

\* ===================================== get_retry_config / concurrency
KiB == 1024
Profile(r, b, t, c) == [max_retries |-> r, backoff_factor |-> b, timeout |-> t, chunk_size |-> c]
SlowProfile == Profile(5, Rat(20, 10), 30, KiB * 512)
MediumProfile == Profile(3, Rat(15, 10), 20, KiB * KiB * 2)
FastProfile == Profile(2, Rat(10, 10), 15, KiB * KiB * 5)
DefaultBandwidth == Rat(10, 1)

\* Variant: the tier boundaries belong to the lower tier.
get_retry_config_inclusive(b) ==
    LET bw == IF IsNone(b) THEN DefaultBandwidth ELSE b
    IN  IF RatLE(bw, Rat(5, 1)) THEN SlowProfile
        ELSE IF RatLE(bw, Rat(25, 1)) THEN MediumProfile
        ELSE FastProfile

\* get_retry_config(bandwidth_mbps=None)
get_retry_config(b) ==
    LET bw == IF IsNone(b) THEN DefaultBandwidth ELSE b
    IN  IF RatLT(bw, Rat(5, 1)) THEN SlowProfile
        ELSE IF RatLT(bw, Rat(25, 1)) THEN MediumProfile
        ELSE FastProfile

\* Variant: no upper limit.
OptimalConnectionsNoCap(b) == Max2(2, PyInt(b.num, 10 * b.den) + 2)

\* Variant: a value above the upper limit falls back to the minimum.
OptimalConnectionsReset(b) ==
    LET c == PyInt(b.num, 10 * b.den) + 2
    IN  IF c > 16 THEN 2 ELSE Max2(2, c)

\* max(2, min(16, int(bandwidth_mbps / 10) + 2)) for a supplied bandwidth
OptimalConnections(b) == Max2(2, Min2(16, PyInt(b.num, 10 * b.den) + 2))

\* Supplied bandwidths: halves of a Mbps from -1 to MaxMbps, and 3.2.
InputBandwidths == {Rat(n, 2) : n \in (-2)..(2 * MaxMbps)} \cup {Rat(32, 10)}
NoCall == [op |-> "none"]

ProfileInit ==
    /\ call = NoCall
    /\ prev = NoCall
    /\ measurements = 0

call_get_retry_config(b) ==
    /\ call' = [op |-> "get_retry_config", arg |-> b, result |-> get_retry_config(b)]
    /\ prev' = NoCall
    /\ UNCHANGED exceptProfile

call_get_optimal_concurrent_connections(b) ==
    /\ call' = [op |-> "get_optimal_concurrent_connections", arg |-> b,
                result |-> OptimalConnections(b)]
    /\ prev' = NoCall
    /\ UNCHANGED exceptProfile

\* A second get_optimal_concurrent_connections call right after a first one;
\* the first call and its result are kept in prev.
second_get_optimal_concurrent_connections(b) ==
    /\ call.op = "get_optimal_concurrent_connections"
    /\ prev = NoCall
    /\ call' = [op |-> "get_optimal_concurrent_connections", arg |-> b,
                result |-> OptimalConnections(b)]
    /\ prev' = call
    /\ UNCHANGED exceptProfile

NextProfile ==
    \/ \E b \in InputBandwidths \cup {None} : call_get_retry_config(b)
    \/ \E b \in InputBandwidths : call_get_optimal_concurrent_connections(b)

\* Pairs of calls, on whole Mbps values and 3.2.
PairBandwidths == {Rat(n, 1) : n \in (-1)..MaxMbps} \cup {Rat(32, 10)}

NextPairs ==
    \/ \E b \in PairBandwidths : call_get_optimal_concurrent_connections(b)
    \/ \E b \in PairBandwidths : second_get_optimal_concurrent_connections(b)

\* ===================================================== SystemNetworkTuner
\* platform.system().lower(); "freebsd" stands for every other OS family.
OsTypes == {"linux", "darwin", "windows", "freebsd"}
\* Outcomes of "sysctl net.ipv4.tcp_available_congestion_control": status 0
\* with or without bbr in the list, a non-zero status, or an exception.
BbrQueryOutcomes == {"bbr", "nobbr", "nonzero", "raises"}
\* Outcomes of subprocess.run(cmd.split(), ..., timeout=30)
CmdOutcomes == {"exit0", "nonzero", "timeout", "error"}

LinuxCommands == <<
    "sysctl -w net.core.rmem_max=134217728",
    "sysctl -w net.core.wmem_max=134217728",
    "sysctl -w net.ipv4.tcp_rmem=\"4096 87380 134217728\"",
    "sysctl -w net.ipv4.tcp_wmem=\"4096 65536 134217728\"",
    "sysctl -w net.core.netdev_max_backlog=5000",
    "sysctl -w net.core.somaxconn=1024",
    "sysctl -w net.ipv4.tcp_window_scaling=1",
    "sysctl -w net.ipv4.tcp_timestamps=1",
    "sysctl -w net.ipv4.tcp_sack=1",
    "sysctl -w net.ipv4.tcp_no_metrics_save=1",
    "sysctl -w net.ipv4.tcp_syn_retries=3",
    "sysctl -w net.ipv4.tcp_synack_retries=3",
    "sysctl -w net.ipv4.tcp_retries2=8" >>
BbrCommands == <<
    "sysctl -w net.ipv4.tcp_congestion_control=bbr",
    "sysctl -w net.core.default_qdisc=fq" >>
DarwinCommands == <<
    "sysctl -w kern.ipc.maxsockbuf=16777216",
    "sysctl -w net.inet.tcp.sendspace=1048576",
    "sysctl -w net.inet.tcp.recvspace=1048576" >>
WindowsCommands == <<
    "netsh int tcp set global autotuninglevel=normal",
    "netsh int tcp set global chimney=enabled",
    "netsh int tcp set global rss=enabled",
    "netsh int tcp set global netdma=enabled",
    "netsh int tcp set global initialrto=1000",
    "netsh int tcp set global maxsynretransmissions=4" >>

BbrQueryCommand == "sysctl net.ipv4.tcp_available_congestion_control"

\* check_root_privileges(): IsUserAnAdmin() / geteuid() == 0, no subprocess.
check_root_privileges(priv) == priv

\* is_bbr_available(): the value, and the subprocess.run calls it makes.
is_bbr_available(os, q) == os = "linux" /\ q = "bbr"
is_bbr_available_runs(os) ==
    IF os = "linux" THEN << [kind |-> "query", cmd |-> BbrQueryCommand] >> ELSE << >>

\* get_network_optimization_commands(): the value, and the subprocess.run
\* calls made while building it.
get_network_optimization_commands(os, q) ==
    IF os = "linux"
      THEN LinuxCommands \o (IF is_bbr_available(os, q) THEN BbrCommands ELSE << >>)
    ELSE IF os = "darwin" THEN DarwinCommands
    ELSE IF os = "windows" THEN WindowsCommands
    ELSE << >>
get_network_optimization_commands_runs(os) ==
    IF os = "linux" THEN is_bbr_available_runs(os) ELSE << >>

\* Variant: the dry run does not bypass the privilege check.
PrivilegeDeniedAlsoDryRun(dry, priv) == ~check_root_privileges(priv)
\* Variant: the test of dry_run is inverted.
PrivilegeDeniedInverted(dry, priv) == dry /\ ~check_root_privileges(priv)

\* "if not dry_run and not self.check_root_privileges()"
PrivilegeDenied(dry, priv) == ~dry /\ ~check_root_privileges(priv)
\* check_root_privileges is evaluated only when dry_run is false (short circuit).
PrivilegeChecks(dry) == IF dry THEN 0 ELSE 1

\* "if result.returncode == 0: success_count += 1"
CountsAsSuccess(outcome) == IF outcome = "exit0" THEN 1 ELSE 0

\* Variant: an exception raised by subprocess.run leaves the loop.
NextCommandAbort(i, n, outcome) == IF outcome = "error" THEN n + 1 ELSE i + 1

\* The try/except inside the loop body: every outcome goes on with the next
\* command.
NextCommand(i, n, outcome) == i + 1

\* Variant: success means that nothing failed.
ApplyResultAll(sc, total) == sc = total

\* "return success_count > 0"
ApplyResult(sc, total) == sc > 0

\* No SystemNetworkTuner exists yet.
TunerInit ==
    /\ os_type = "unset"
    /\ privileged = FALSE
    /\ bbrQuery = "nonzero"
    /\ tPc = "none"
    /\ dry_run = FALSE
    /\ commands = << >>
    /\ cmdIndex = 1
    /\ success_count = 0
    /\ subprocessLog = << >>
    /\ exitedZero = 0
    /\ privChecks = 0
    /\ printed = << >>
    /\ tResult = "none"

\* SystemNetworkTuner(): __init__ reads the OS family; the privilege of the
\* process and the kernel's congestion-control list are the environment's.
SystemNetworkTuner(os, priv, q) ==
    /\ tPc = "none"
    /\ os_type' = os
    /\ privileged' = priv
    /\ bbrQuery' = q
    /\ tPc' = "idle"
    /\ UNCHANGED <<dry_run, commands, cmdIndex, success_count, subprocessLog, exitedZero,
                   privChecks, printed, tResult, exceptTuner>>

\* Variant: success_count lives in the object and is never reset.
InitialSuccessCountCarried(carried) == carried

\* "success_count = 0"
InitialSuccessCount(carried) == 0

\* apply_optimizations(dry_run=dry) up to the first command: the privilege
\* check, the catalogue and the dry-run listing.
ApplyOptimizations(dry) ==
    /\ tPc \in {"idle", "done"}
    /\ dry_run' = dry
    /\ privChecks' = PrivilegeChecks(dry)
    /\ cmdIndex' = 1
    /\ success_count' = InitialSuccessCount(success_count)
    /\ exitedZero' = 0
    /\ IF PrivilegeDenied(dry, privileged)
         THEN /\ tPc' = "done"
              /\ tResult' = FALSE
              /\ commands' = << >>
              /\ subprocessLog' = << >>
              /\ printed' = << >>
         ELSE /\ commands' = get_network_optimization_commands(os_type, bbrQuery)
              /\ subprocessLog' = get_network_optimization_commands_runs(os_type)
              /\ IF dry
                   THEN /\ printed' = get_network_optimization_commands(os_type, bbrQuery)
                        /\ tPc' = "done"
                        /\ tResult' = TRUE
                   ELSE /\ printed' = << >>
                        /\ tPc' = "exec"
                        /\ tResult' = "none"
    /\ UNCHANGED <<os_type, privileged, bbrQuery>>

\* apply_optimizations where the kernel's parameters are not tracked.
apply_optimizations(dry) == ApplyOptimizations(dry) /\ UNCHANGED exceptTuner

\* One iteration of "for cmd in commands".
RunCommand(outcome) ==
    /\ tPc = "exec"
    /\ cmdIndex <= Len(commands)
    /\ subprocessLog' = Append(subprocessLog, [kind |-> "command", cmd |-> commands[cmdIndex]])
    /\ success_count' = success_count + CountsAsSuccess(outcome)
    /\ exitedZero' = exitedZero + (IF outcome = "exit0" THEN 1 ELSE 0)
    /\ cmdIndex' = NextCommand(cmdIndex, Len(commands), outcome)
    /\ UNCHANGED <<os_type, privileged, bbrQuery, tPc, dry_run, commands, privChecks,
                   printed, tResult>>

\* One iteration where the kernel's parameters are not tracked.
run_command(outcome) == RunCommand(outcome) /\ UNCHANGED exceptTuner

\* The loop is over: "return success_count > 0".
apply_return ==
    /\ tPc = "exec"
    /\ cmdIndex > Len(commands)
    /\ tResult' = ApplyResult(success_count, Len(commands))
    /\ tPc' = "done"
    /\ UNCHANGED <<os_type, privileged, bbrQuery, dry_run, commands, cmdIndex, success_count,
                   subprocessLog, exitedZero, privChecks, printed, exceptTuner>>

\* ================================================ create_persistent_config
Setting(k, v) == [key |-> k, value |-> v]

\* The parameter a catalogue command sets: "sysctl -w key=value".
SysctlSetting(cmd) ==
    CASE cmd = LinuxCommands[1] -> Setting("net.core.rmem_max", "134217728")
      [] cmd = LinuxCommands[2] -> Setting("net.core.wmem_max", "134217728")
      [] cmd = LinuxCommands[3] -> Setting("net.ipv4.tcp_rmem", "4096 87380 134217728")
      [] cmd = LinuxCommands[4] -> Setting("net.ipv4.tcp_wmem", "4096 65536 134217728")
      [] cmd = LinuxCommands[5] -> Setting("net.core.netdev_max_backlog", "5000")
      [] cmd = LinuxCommands[6] -> Setting("net.core.somaxconn", "1024")
      [] cmd = LinuxCommands[7] -> Setting("net.ipv4.tcp_window_scaling", "1")
      [] cmd = LinuxCommands[8] -> Setting("net.ipv4.tcp_timestamps", "1")
      [] cmd = LinuxCommands[9] -> Setting("net.ipv4.tcp_sack", "1")
      [] cmd = LinuxCommands[10] -> Setting("net.ipv4.tcp_no_metrics_save", "1")
      [] cmd = LinuxCommands[11] -> Setting("net.ipv4.tcp_syn_retries", "3")
      [] cmd = LinuxCommands[12] -> Setting("net.ipv4.tcp_synack_retries", "3")
      [] cmd = LinuxCommands[13] -> Setting("net.ipv4.tcp_retries2", "8")
      [] cmd = BbrCommands[1] -> Setting("net.ipv4.tcp_congestion_control", "bbr")
      [] cmd = BbrCommands[2] -> Setting("net.core.default_qdisc", "fq")

\* config_content: its "key = value" lines, in file order.
ConfigContent == <<
    Setting("net.core.rmem_max", "134217728"),
    Setting("net.core.wmem_max", "134217728"),
    Setting("net.ipv4.tcp_rmem", "4096 87380 134217728"),
    Setting("net.ipv4.tcp_wmem", "4096 65536 134217728"),
    Setting("net.core.netdev_max_backlog", "5000"),
    Setting("net.core.somaxconn", "1024"),
    Setting("net.ipv4.tcp_window_scaling", "1"),
    Setting("net.ipv4.tcp_timestamps", "1"),
    Setting("net.ipv4.tcp_sack", "1"),
    Setting("net.ipv4.tcp_no_metrics_save", "1"),
    Setting("net.ipv4.tcp_syn_retries", "3"),
    Setting("net.ipv4.tcp_synack_retries", "3"),
    Setting("net.ipv4.tcp_retries2", "8"),
    Setting("net.ipv4.tcp_congestion_control", "bbr"),
    Setting("net.core.default_qdisc", "fq") >>

\* Outcomes of "with open(config_file, 'w') as f: f.write(config_content)".
WriteOutcomes == {"ok", "open_fails", "write_fails"}
AbsentFile == [exists |-> FALSE, lines |-> << >>]

ConfigInit ==
    /\ configFile = AbsentFile
    /\ pPc = "none"
    /\ pWrite = "none"
    /\ pReturn = FALSE

\* Variant: every OS but Windows has /etc/sysctl.d.
PersistentConfigSupportedPosix(os) == os # "windows"

\* "if self.os_type == 'linux'"
PersistentConfigSupported(os) == os = "linux"

\* What open(..., 'w') and write leave on disk.
FileAfterWrite(file, outcome) ==
    IF outcome = "ok" THEN [exists |-> TRUE, lines |-> ConfigContent]
    ELSE IF outcome = "write_fails" THEN [exists |-> TRUE, lines |-> << >>]
    ELSE file

\* create_persistent_config(): on Linux writes the fixed content and returns
\* True, or False when the write raised; elsewhere returns False.
create_persistent_config(outcome) ==
    /\ tPc \in {"idle", "done"}
    /\ pPc' = "returned"
    /\ IF PersistentConfigSupported(os_type)
         THEN /\ pWrite' = outcome
              /\ configFile' = FileAfterWrite(configFile, outcome)
              /\ pReturn' = (outcome = "ok")
         ELSE /\ outcome = "ok"
              /\ pWrite' = "none"
              /\ configFile' = configFile
              /\ pReturn' = FALSE
    /\ UNCHANGED exceptConfig

NextTuner ==
    \/ \E os \in OsTypes, priv \in BOOLEAN, q \in BbrQueryOutcomes :
          SystemNetworkTuner(os, priv, q)
    \/ \E dry \in BOOLEAN : apply_optimizations(dry)
    \/ \E outcome \in CmdOutcomes : run_command(outcome)
    \/ apply_return
    \/ \E outcome \in WriteOutcomes : create_persistent_config(outcome)

\* ================================================== benchmark_dns_servers
\* DNS_SERVERS, in the iteration order of the dict.
DNS_NAMES == << "cloudflare", "google", "quad9", "opendns" >>
DNS_SERVERS ==
    [n \in {"cloudflare", "google", "quad9", "opendns"} |->
        CASE n = "cloudflare" -> << "1.1.1.1", "1.0.0.1" >>
          [] n = "google" -> << "8.8.8.8", "8.8.4.4" >>
          [] n = "quad9" -> << "9.9.9.9", "149.112.112.112" >>
          [] n = "opendns" -> << "208.67.222.222", "208.67.220.220" >>]
\* The default test_domains.
TestDomains == << "www.youtube.com", "www.tiktok.com", "www.google.com" >>

\* ping_dns_server: the elapsed ms of a successful ping, or inf.
PingTimes == {Rat(1, 1), Inf}
\* dns_lookup_test: the elapsed ms of a successful lookup, or inf.
LookupTimes == {Rat(k, 1) : k \in 1..MaxLookupMs} \cup {Inf}

\* "if lookup_time != float('inf'): lookup_times.append(lookup_time)"
RECURSIVE FiniteOnes(_)
FiniteOnes(seq) ==
    IF seq = << >> THEN << >>
    ELSE (IF IsInf(Head(seq)) THEN << >> ELSE << Head(seq) >>) \o FiniteOnes(Tail(seq))

\* sum(lookup_times), of whole-ms values
RECURSIVE SumMs(_)
SumMs(seq) == IF seq = << >> THEN 0 ELSE Head(seq).num + SumMs(Tail(seq))

\* "sum(lookup_times) / len(lookup_times) if lookup_times else float('inf')"
AvgLookup(lookup_times) ==
    IF lookup_times = << >> THEN Inf ELSE Norm(Rat(SumMs(lookup_times), Len(lookup_times)))

\* results[name] = {...}
ResultEntry(name, ping_time, lookups) ==
    LET avg_lookup == AvgLookup(FiniteOnes(lookups))
    IN  [servers |-> DNS_SERVERS[name],
         ping_time |-> ping_time,
         avg_lookup_time |-> avg_lookup,
         total_score |-> FAdd(ping_time, avg_lookup)]

\* Variant: the candidates are ranked by lookup latency alone.
BestDnsByLookup(res) ==
    LET i == CHOOSE i \in 1..Len(DNS_NAMES) :
                 /\ \A j \in 1..Len(DNS_NAMES) :
                        ~FLT(res[DNS_NAMES[j]].avg_lookup_time, res[DNS_NAMES[i]].avg_lookup_time)
                 /\ \A j \in 1..(i - 1) :
                        FLT(res[DNS_NAMES[i]].avg_lookup_time, res[DNS_NAMES[j]].avg_lookup_time)
    IN  DNS_NAMES[i]

\* "min(results.items(), key=lambda x: x[1]['total_score'])": the first entry,
\* in insertion order, whose score no other entry is below.
BestDns(res) ==
    LET i == CHOOSE i \in 1..Len(DNS_NAMES) :
                 /\ \A j \in 1..Len(DNS_NAMES) :
                        ~FLT(res[DNS_NAMES[j]].total_score, res[DNS_NAMES[i]].total_score)
                 /\ \A j \in 1..(i - 1) :
                        FLT(res[DNS_NAMES[i]].total_score, res[DNS_NAMES[j]].total_score)
    IN  DNS_NAMES[i]

NoReturn == [name |-> "unset", servers |-> "unset"]

DnsInit ==
    /\ best_dns = "None"
    /\ dPc = "idle"
    /\ dIdx = 1
    /\ results = << >>
    /\ measured = << >>
    /\ dReturn = NoReturn

\* What the probes of one candidate gave: the ping latency and the mean
\* latency of the lookups that succeeded (inf if none did).
Probed(ping_time, lookups) ==
    LET okSet == {i \in DOMAIN lookups : ~IsInf(lookups[i])}
        total == SumMs(FiniteOnes(lookups))
    IN  [ping |-> ping_time,
         mean |-> IF okSet = {} THEN Inf ELSE Norm(Rat(total, Cardinality(okSet)))]

\* benchmark_dns_servers(): entry, "results = {}".
benchmark_dns_servers ==
    /\ dPc = "idle"
    /\ dPc' = "loop"
    /\ dIdx' = 1
    /\ results' = << >>
    /\ measured' = << >>
    /\ dReturn' = NoReturn
    /\ UNCHANGED <<best_dns, exceptDns>>

\* One iteration of "for name, servers in self.DNS_SERVERS.items()": one
\* ping_dns_server call and one dns_lookup_test call per test domain.
test_dns_server(ping_time, lookups) ==
    /\ dPc = "loop"
    /\ dIdx <= Len(DNS_NAMES)
    /\ LET name == DNS_NAMES[dIdx]
       IN  /\ results' = [n \in (DOMAIN results) \cup {name} |->
                            IF n = name THEN ResultEntry(name, ping_time, lookups)
                            ELSE results[n]]
           /\ measured' = [n \in (DOMAIN measured) \cup {name} |->
                            IF n = name THEN Probed(ping_time, lookups) ELSE measured[n]]
    /\ dIdx' = dIdx + 1
    /\ UNCHANGED <<best_dns, dPc, dReturn, exceptDns>>

\* After the loop: pick the minimum and return.
select_best_dns ==
    /\ dPc = "loop"
    /\ dIdx > Len(DNS_NAMES)
    /\ LET best == BestDns(results)
       IN  IF ~IsInf(results[best].total_score)
             THEN /\ best_dns' = best
                  /\ dReturn' = [name |-> best, servers |-> results[best].servers]
             ELSE /\ best_dns' = best_dns
                  /\ dReturn' = [name |-> "None", servers |-> "None"]
    /\ dPc' = "done"
    /\ UNCHANGED <<dIdx, results, measured, exceptDns>>

NextDns ==
    \/ benchmark_dns_servers
    \/ \E ping_time \in PingTimes, lookups \in [1..Len(TestDomains) -> LookupTimes] :
          test_dns_server(ping_time, lookups)
    \/ select_best_dns

\* ======================================================= detect_bandwidth
\* iter_content(chunk_size=8192)
ChunkSize == 8192
\* "if time.time() - start_time > 5", in ms
TestMs == 5 * 1000
\* Lengths of a chunk: a full one or a short one.
ChunkLens == {ChunkSize, ChunkSize \div 8}
\* How far the clock moves between two readings of time.time(), in ms.
TimeSteps == {0, 1, TestMs \div 2, TestMs + 1}
\* Exceptions raised inside the try block by the request and by the read.
RequestErrors == {"ConnectTimeout", "ConnectionError"}
StreamErrors == {"ChunkedEncodingError", "ConnectionError"}

\* bandwidth_mbps = (data_downloaded / elapsed_time * 8) / (1024 * 1024) with
\* elapsed_time = ms / 1000 > 0: bytes * 8 * 1000 / (ms * 1024 * 1024), both
\* sides divided by 64.
BandwidthMbps(bytes, ms) == Norm(Rat(bytes * 125, ms * (KiB \div 8) * (KiB \div 8)))

\* Variant: only the errors of the request are handled.
OnProbeErrorRequestOnly(err) ==
    IF err \in RequestErrors THEN [kind |-> "returned", value |-> Rat(10, 1)]
    ELSE [kind |-> "raised", error |-> err]

\* "except Exception as e: ... return 10.0"
OnProbeError(err) == [kind |-> "returned", value |-> Rat(10, 1)]

NoOutcome == [kind |-> "none"]

ProbeInit ==
    /\ bPc = "idle"
    /\ bwCaller = "direct"
    /\ data_downloaded = 0
    /\ chunks = 0
    /\ elapsedMs = 0
    /\ bwError = "none"
    /\ bwOutcome = NoOutcome

\* detect_bandwidth ends with outcome o; when it was called by
\* get_optimal_concurrent_connections(None) and returned, that function goes
\* on to derive the connections from the value.
ProbeEnds(o) ==
    /\ bPc' = "done"
    /\ bwOutcome' = o
    /\ IF bwCaller = "get_optimal_concurrent_connections" /\ o.kind = "returned"
         THEN /\ call' = [op |-> "get_optimal_concurrent_connections", arg |-> None,
                          result |-> OptimalConnections(o.value)]
              /\ prev' = NoCall
         ELSE UNCHANGED <<call, prev>>

\* detect_bandwidth() is entered, directly or from
\* get_optimal_concurrent_connections(None): start_time = time.time().
detect_bandwidth(caller) ==
    /\ bPc \in {"idle", "done"}
    /\ measurements < MaxMeasurements
    /\ measurements' = measurements + 1
    /\ bPc' = "request"
    /\ bwCaller' = caller
    /\ data_downloaded' = 0
    /\ chunks' = 0
    /\ elapsedMs' = 0
    /\ bwError' = "none"
    /\ bwOutcome' = NoOutcome
    /\ UNCHANGED <<call, prev, exceptProbe>>

\* requests.get(test_url, timeout=timeout, stream=True) returns a response.
request_returns(dt) ==
    /\ bPc = "request"
    /\ bPc' = "stream"
    /\ elapsedMs' = elapsedMs + dt
    /\ UNCHANGED <<bwCaller, data_downloaded, chunks, bwError, bwOutcome, measurements,
                   call, prev, exceptProbe>>

\* requests.get (or the import) raises.
request_raises(err, dt) ==
    /\ bPc = "request"
    /\ bwError' = err
    /\ elapsedMs' = elapsedMs + dt
    /\ ProbeEnds(OnProbeError(err))
    /\ UNCHANGED <<bwCaller, data_downloaded, chunks, measurements, exceptProbe>>

\* One iteration of "for chunk in response.iter_content(...)".
read_chunk(len, dt) ==
    /\ bPc = "stream"
    /\ chunks < MaxChunks
    /\ chunks' = chunks + 1
    /\ data_downloaded' = data_downloaded + len
    /\ elapsedMs' = elapsedMs + dt
    /\ bPc' = IF elapsedMs + dt > TestMs THEN "compute" ELSE "stream"
    /\ UNCHANGED <<bwCaller, bwError, bwOutcome, measurements, call, prev, exceptProbe>>

\* The body of the response is exhausted.
stream_ends ==
    /\ bPc = "stream"
    /\ bPc' = "compute"
    /\ UNCHANGED <<bwCaller, data_downloaded, chunks, elapsedMs, bwError, bwOutcome,
                   measurements, call, prev, exceptProbe>>

\* The streaming read raises.
stream_raises(err, dt) ==
    /\ bPc = "stream"
    /\ bwError' = err
    /\ elapsedMs' = elapsedMs + dt
    /\ ProbeEnds(OnProbeError(err))
    /\ UNCHANGED <<bwCaller, data_downloaded, chunks, measurements, exceptProbe>>

\* elapsed_time = time.time() - start_time, and the two divisions; the first
\* raises ZeroDivisionError when elapsed_time is 0.
compute_bandwidth(dt) ==
    /\ bPc = "compute"
    /\ elapsedMs' = elapsedMs + dt
    /\ IF elapsedMs + dt = 0
         THEN /\ bwError' = "ZeroDivisionError"
              /\ ProbeEnds(OnProbeError("ZeroDivisionError"))
         ELSE /\ bwError' = "none"
              /\ ProbeEnds([kind |-> "returned",
                            value |-> BandwidthMbps(data_downloaded, elapsedMs + dt)])
    /\ UNCHANGED <<bwCaller, data_downloaded, chunks, measurements, exceptProbe>>

NextProbe ==
    \/ \E caller \in {"direct", "get_optimal_concurrent_connections"} : detect_bandwidth(caller)
    \/ \E dt \in TimeSteps : request_returns(dt)
    \/ \E err \in RequestErrors, dt \in TimeSteps : request_raises(err, dt)
    \/ \E len \in ChunkLens, dt \in TimeSteps : read_chunk(len, dt)
    \/ stream_ends
    \/ \E err \in StreamErrors, dt \in TimeSteps : stream_raises(err, dt)
    \/ \E dt \in TimeSteps : compute_bandwidth(dt)

\* ======================================================== dns_lookup_test
\* socket.getdefaulttimeout() of a process that never set one: None.
NoTimeout == -1
\* Values the application may have set as default timeout before probing.
AppTimeouts == {NoTimeout, 10}
\* The timeout argument: the default 3, or a caller's value.
LookupTimeoutArgs == {3, 5}
\* What socket.gethostbyname does: returns, or raises one of these.
LookupErrors == {"gaierror", "timeout", "OSError"}
LookupCalls == 1..MaxLookupCalls
IdleCall == [pc |-> "idle"]

LookupInit ==
    /\ socketTimeout = NoTimeout
    /\ quietTimeout = NoTimeout
    /\ lk = [t \in LookupCalls |-> IdleCall]

InProgress(c) == c.pc \in {"saved", "set", "resolved"}

\* The application sets a default timeout while no lookup is in progress.
app_setdefaulttimeout(v) ==
    /\ \A t \in LookupCalls : lk[t].pc = "idle"
    /\ socketTimeout' = v
    /\ quietTimeout' = v
    /\ UNCHANGED <<lk, exceptLookup>>

\* dns_lookup_test(dns_server, test_domain, timeout) is entered:
\* "original_dns = socket.getdefaulttimeout()".
lookup_enter(t, dns_server, test_domain, timeout) ==
    /\ lk[t].pc \in {"idle", "done"}
    /\ lk' = [lk EXCEPT ![t] = [pc |-> "saved", dns_server |-> dns_server,
                                test_domain |-> test_domain, timeout |-> timeout,
                                original_dns |-> socketTimeout]]
    /\ quietTimeout' = IF \E u \in LookupCalls : InProgress(lk[u])
                         THEN quietTimeout ELSE socketTimeout
    /\ UNCHANGED <<socketTimeout, exceptLookup>>

\* "socket.setdefaulttimeout(timeout)"; start_time is taken.
lookup_set(t) ==
    /\ lk[t].pc = "saved"
    /\ socketTimeout' = lk[t].timeout
    /\ lk' = [lk EXCEPT ![t].pc = "set"]
    /\ UNCHANGED <<quietTimeout, exceptLookup>>

\* "socket.gethostbyname(test_domain)" returns after ms, or raises err
\* (err = "none" when it returns).
lookup_resolve(t, ms, err) ==
    /\ lk[t].pc = "set"
    /\ lk' = [lk EXCEPT ![t] = [pc |-> "resolved", dns_server |-> lk[t].dns_server,
                                test_domain |-> lk[t].test_domain,
                                timeout |-> lk[t].timeout,
                                original_dns |-> lk[t].original_dns,
                                in_effect |-> socketTimeout,
                                elapsed |-> ms, error |-> err]]
    /\ UNCHANGED <<socketTimeout, quietTimeout, exceptLookup>>

\* Variant: the except clause returns inf without restoring the timeout.
TimeoutAfterLookupNoRestoreOnError(original_dns, current, err) ==
    IF err = "none" THEN original_dns ELSE current

\* "socket.setdefaulttimeout(original_dns)" on the normal path (line 67) and
\* in the except clause (line 72).
TimeoutAfterLookup(original_dns, current, err) == original_dns

\* The value returned: elapsed ms, or inf from the except clause.
LookupResult(ms, err) == IF err = "none" THEN Rat(ms, 1) ELSE Inf

\* The timeout is restored and the call returns.
lookup_return(t) ==
    /\ lk[t].pc = "resolved"
    /\ socketTimeout' = TimeoutAfterLookup(lk[t].original_dns, socketTimeout, lk[t].error)
    /\ lk' = [lk EXCEPT ![t] = [pc |-> "done", dns_server |-> lk[t].dns_server,
                                test_domain |-> lk[t].test_domain,
                                timeout |-> lk[t].timeout,
                                original_dns |-> lk[t].original_dns,
                                in_effect |-> lk[t].in_effect,
                                error |-> lk[t].error,
                                outcome |-> "returned",
                                result |-> LookupResult(lk[t].elapsed, lk[t].error)]]
    /\ UNCHANGED <<quietTimeout, exceptLookup>>

ResolveOutcomes ==
    {<<ms, "none">> : ms \in 1..MaxLookupMs} \cup {<<0, e>> : e \in LookupErrors}

\* One call at a time, as benchmark_dns_servers makes them.
NextLookup ==
    \/ \E v \in AppTimeouts : app_setdefaulttimeout(v)
    \/ \E n \in DOMAIN DNS_SERVERS, d \in 1..Len(TestDomains), to \in LookupTimeoutArgs :
          lookup_enter(1, DNS_SERVERS[n][1], TestDomains[d], to)
    \/ lookup_set(1)
    \/ \E o \in ResolveOutcomes : lookup_resolve(1, o[1], o[2])
    \/ lookup_return(1)

\* Calls interleaved, one per test domain, as a concurrent fan-out makes them.
NextLookupFanOut ==
    \/ \E v \in AppTimeouts : app_setdefaulttimeout(v)
    \/ \E t \in LookupCalls, to \in LookupTimeoutArgs :
          /\ lk[t].pc = "idle"
          /\ lookup_enter(t, DNS_SERVERS["cloudflare"][1],
                          TestDomains[((t - 1) % Len(TestDomains)) + 1], to)
    \/ \E t \in LookupCalls : lookup_set(t)
    \/ \E t \in LookupCalls, o \in ResolveOutcomes : lookup_resolve(t, o[1], o[2])
    \/ \E t \in LookupCalls : lookup_return(t)

\* ======================================================== get_dns_servers
\* dns_choice values: 'auto', the catalogue names, and a name not in it.
DnsChoices == {"auto", "cloudfare"} \cup DOMAIN DNS_SERVERS
\* A return value that is an address list, or None.
Servers(list) == [found |-> TRUE, servers |-> list]
NoServers == [found |-> FALSE, servers |-> << >>]

GetDnsInit ==
    /\ gPc = "idle"
    /\ gChoice = "auto"
    /\ gFallbacks = 0
    /\ gReturn = NoServers

\* Variant: a name that is not in the catalogue yields None.
DnsChoiceRouteNoFallback(choice) ==
    IF choice = "auto" THEN "benchmark"
    ELSE IF choice \in DOMAIN DNS_SERVERS THEN "catalogue"
    ELSE "none"

\* The if / elif / else of get_dns_servers.
DnsChoiceRoute(choice) ==
    IF choice = "auto" THEN "benchmark"
    ELSE IF choice \in DOMAIN DNS_SERVERS THEN "catalogue"
    ELSE "fallback"

\* get_dns_servers(dns_choice): a catalogue name returns at once; 'auto' runs
\* benchmark_dns_servers; any other name calls get_dns_servers('auto').
get_dns_servers(choice) ==
    /\ gPc \in {"idle", "done"}
    /\ dPc = "idle"
    /\ gChoice' = choice
    /\ results' = << >>
    /\ measured' = << >>
    /\ dReturn' = NoReturn
    /\ dIdx' = 1
    /\ LET route == DnsChoiceRoute(choice)
       IN  /\ gFallbacks' = IF route = "fallback" THEN 1 ELSE 0
           /\ IF route \in {"benchmark", "fallback"}
                THEN /\ dPc' = "loop"
                     /\ gPc' = "benchmark"
                     /\ gReturn' = NoServers
                ELSE /\ dPc' = "idle"
                     /\ gPc' = "done"
                     /\ gReturn' = IF route = "catalogue" THEN Servers(DNS_SERVERS[choice])
                                   ELSE NoServers
    /\ UNCHANGED <<best_dns, exceptGetDns>>

\* "best_name, best_servers = self.benchmark_dns_servers(); return best_servers"
get_dns_servers_return ==
    /\ gPc = "benchmark"
    /\ dPc = "done"
    /\ gReturn' = IF dReturn.name = "None" THEN NoServers ELSE Servers(dReturn.servers)
    /\ gPc' = "done"
    /\ dPc' = "idle"
    /\ UNCHANGED <<gChoice, gFallbacks, best_dns, dIdx, results, measured, dReturn, exceptGetDns>>

\* Lookups that give the same outcome for every test domain.
UniformLookups == {[i \in 1..Len(TestDomains) |-> x] : x \in LookupTimes}

NextGetDns ==
    \/ \E choice \in DnsChoices : get_dns_servers(choice)
    \/ \E ping_time \in PingTimes, lookups \in UniformLookups :
          test_dns_server(ping_time, lookups)
    \/ select_best_dns
    \/ get_dns_servers_return

\* ====================================================== benchmark_network
NoReport == [made |-> FALSE]
\* The local "bandwidth" before its assignment.
NoBandwidth == [unset |-> TRUE]

BenchInit ==
    /\ nPc = "idle"
    /\ report = NoReport
    /\ runSelection = "unset"
    /\ bandwidth = NoBandwidth
    /\ runMeasured = 0

\* 'best_dns': self.best_dns
ReportedDns(stored, selected) == stored

\* benchmark_network(): entry, up to the first probe of
\* self.benchmark_dns_servers().
benchmark_network ==
    /\ nPc \in {"idle", "done"}
    /\ dPc = "idle"
    /\ bPc \in {"idle", "done"}
    /\ measurements < MaxMeasurements
    /\ nPc' = "dns"
    /\ report' = NoReport
    /\ runSelection' = "unset"
    /\ bandwidth' = NoBandwidth
    /\ runMeasured' = 0
    /\ dPc' = "loop"
    /\ dIdx' = 1
    /\ results' = << >>
    /\ measured' = << >>
    /\ dReturn' = NoReturn
    /\ UNCHANGED <<best_dns, retryVars, profileVars, measurements, tunerVars, probeVars,
                   lookupVars, getDnsVars, configVars, cliVars, kernelVars, browserVars>>

\* benchmark_dns_servers() has returned (its value is dropped, its locals are
\* gone); "bandwidth = self.detect_bandwidth()" is entered.
benchmark_network_bandwidth ==
    /\ nPc = "dns"
    /\ dPc = "done"
    /\ nPc' = "bandwidth"
    /\ runSelection' = dReturn.name
    /\ runMeasured' = runMeasured + 1
    /\ dPc' = "idle"
    /\ dIdx' = 1
    /\ results' = << >>
    /\ measured' = << >>
    /\ dReturn' = NoReturn
    /\ measurements' = measurements + 1
    /\ bPc' = "request"
    /\ bwCaller' = "benchmark_network"
    /\ data_downloaded' = 0
    /\ chunks' = 0
    /\ elapsedMs' = 0
    /\ bwError' = "none"
    /\ bwOutcome' = NoOutcome
    /\ UNCHANGED <<report, bandwidth, best_dns, retryVars, profileVars, tunerVars, lookupVars,
                   getDnsVars, configVars, cliVars, kernelVars, browserVars>>

\* Variant: "if not bandwidth_mbps", which also takes 0.0 for a missing value.
NeedsMeasurementFalsy(bandwidth_mbps) ==
    IsNone(bandwidth_mbps) \/ bandwidth_mbps.num = 0

\* get_optimal_concurrent_connections: "if bandwidth_mbps is None"
NeedsMeasurement(bandwidth_mbps) == IsNone(bandwidth_mbps)

\* detect_bandwidth() has returned. The first time its value becomes the local
\* "bandwidth" and get_optimal_concurrent_connections(bandwidth) is called,
\* which measures again only if it finds no value; then the report is
\* returned (the locals of detect_bandwidth are gone).
benchmark_network_return ==
    /\ nPc = "bandwidth"
    /\ bPc = "done"
    /\ bwOutcome.kind = "returned"
    /\ LET first == bandwidth = NoBandwidth
           b == IF first THEN bwOutcome.value ELSE bandwidth
       IN  /\ bandwidth' = b
           /\ IF first /\ NeedsMeasurement(b)
                THEN /\ measurements < MaxMeasurements
                     /\ measurements' = measurements + 1
                     /\ runMeasured' = runMeasured + 1
                     /\ bPc' = "request"
                     /\ bwCaller' = "get_optimal_concurrent_connections"
                     /\ bwError' = "none"
                     /\ UNCHANGED <<nPc, report>>
                ELSE /\ report' = [made |-> TRUE,
                                   best_dns |-> ReportedDns(best_dns, runSelection),
                                   bandwidth_mbps |-> b,
                                   optimal_connections |-> OptimalConnections(bwOutcome.value)]
                     /\ nPc' = "done"
                     /\ bPc' = "idle"
                     /\ UNCHANGED <<measurements, runMeasured, bwCaller, bwError>>
    /\ data_downloaded' = 0
    /\ chunks' = 0
    /\ elapsedMs' = 0
    /\ bwOutcome' = NoOutcome
    /\ UNCHANGED <<runSelection, retryVars, profileVars, tunerVars,
                   dnsVars, lookupVars, getDnsVars, configVars, cliVars, kernelVars, browserVars>>

\* A direct benchmark_dns_servers() call has returned to its caller.
benchmark_dns_servers_return ==
    /\ nPc # "dns"
    /\ dPc = "done"
    /\ dPc' = "idle"
    /\ dIdx' = 1
    /\ results' = << >>
    /\ measured' = << >>
    /\ dReturn' = NoReturn
    /\ UNCHANGED <<best_dns, exceptDns>>

\* Probe results of a benchmark run: a candidate answers the ping and every
\* lookup in 1 ms, or answers nothing; the clock stands still, moves by 1 ms
\* or passes the test duration.
BenchLookups(x) == [i \in 1..Len(TestDomains) |-> x]
BenchTimeSteps == {0, 1, TestMs + 1}

\* The steps of one benchmark_network run.
BenchmarkRun ==
    \/ \E ping_time \in PingTimes : test_dns_server(ping_time, BenchLookups(ping_time))
    \/ select_best_dns
    \/ benchmark_network_bandwidth
    \/ nPc = "bandwidth" /\ \E dt \in BenchTimeSteps : request_returns(dt)
    \/ nPc = "bandwidth" /\ \E err \in RequestErrors : request_raises(err, 0)
    \/ nPc = "bandwidth" /\ \E dt \in BenchTimeSteps : read_chunk(ChunkSize, dt)
    \/ nPc = "bandwidth" /\ stream_ends
    \/ nPc = "bandwidth" /\ \E err \in StreamErrors : stream_raises(err, 0)
    \/ nPc = "bandwidth" /\ \E dt \in BenchTimeSteps : compute_bandwidth(dt)
    \/ benchmark_network_return

NextBenchmark ==
    \/ benchmark_network
    \/ BenchmarkRun
    \/ nPc \in {"idle", "done"} /\ benchmark_dns_servers
    \/ benchmark_dns_servers_return

\* ============================================ cli.py: tune and benchmark
NoArgs == [tune_system |-> FALSE, tune_dry_run |-> FALSE, benchmark |-> FALSE]
NoSettings == [made |-> FALSE]

CliInit ==
    /\ cliArgs = NoArgs
    /\ cliPc = "args"
    /\ settings = NoSettings

\* Outcomes of a read-only "sysctl <key>" query and of parsing its output.
QueryOutcomes == {"exit0", "nonzero", "error"}
TcpQueryCommand == "sysctl net.ipv4.tcp_congestion_control"
RmemQueryCommand == "sysctl net.core.rmem_max"
WmemQueryCommand == "sysctl net.core.wmem_max"
Query(cmd) == [kind |-> "query", cmd |-> cmd]

\* The subprocess.run calls of benchmark_current_settings: one exception in
\* the try block around the two buffer queries skips what is left of it.
SettingsQueries(os, rmem) ==
    IF os = "linux"
      THEN << Query(TcpQueryCommand) >> \o is_bbr_available_runs(os)
             \o << Query(RmemQueryCommand) >>
             \o (IF rmem = "error" THEN << >> ELSE << Query(WmemQueryCommand) >>)
      ELSE << >>

\* benchmark_current_settings(): reads the current settings and returns them.
benchmark_current_settings(tcp, rmem, wmem) ==
    /\ tPc = "idle"
    /\ settings' =
          [made |-> TRUE,
           tcp_congestion_control |-> IF os_type = "linux" /\ tcp = "exit0" THEN "cubic" ELSE "None",
           bbr_available |-> is_bbr_available(os_type, bbrQuery),
           os_type |-> os_type,
           root_access |-> check_root_privileges(privileged),
           rmem_max |-> os_type = "linux" /\ rmem = "exit0",
           wmem_max |-> os_type = "linux" /\ rmem # "error" /\ wmem = "exit0"]
    /\ subprocessLog' = SettingsQueries(os_type, rmem)
    /\ privChecks' = 1
    /\ UNCHANGED <<os_type, privileged, bbrQuery, tPc, dry_run, commands, cmdIndex,
                   success_count, exitedZero, printed, tResult, cliArgs, cliPc,
                   retryVars, profileVars, measurements, dnsVars, probeVars, lookupVars,
                   getDnsVars, configVars, benchVars, kernelVars, browserVars>>

\* Variant: the benchmark flag also selects the tune action.
CliActionBenchmarkTunes(args) ==
    IF args.tune_system \/ args.tune_dry_run \/ args.benchmark THEN "tune" ELSE "other"

\* The order of the tests in cli.py: tuning first, then the benchmark.
CliAction(args) ==
    IF args.tune_system \/ args.tune_dry_run THEN "tune"
    ELSE IF args.benchmark THEN "benchmark"
    ELSE "other"

\* The flags are parsed.
cli_main(args) ==
    /\ cliPc = "args"
    /\ cliArgs' = args
    /\ cliPc' = CliAction(args)
    /\ UNCHANGED <<settings, exceptCli>>

\* The tune action: apply_optimizations(dry_run=dry_run), its return value
\* dropped, then create_persistent_config() unless dry_run.
CliTune ==
    /\ cliPc = "tune"
    /\ \/ \E os \in OsTypes, priv \in BOOLEAN, q \in BbrQueryOutcomes :
             SystemNetworkTuner(os, priv, q)
       \/ tPc = "idle" /\ apply_optimizations(cliArgs.tune_dry_run)
       \/ \E outcome \in CmdOutcomes : run_command(outcome)
       \/ apply_return
       \/ /\ tPc = "done"
          /\ ~cliArgs.tune_dry_run
          /\ pPc = "none"
          /\ \E outcome \in WriteOutcomes : create_persistent_config(outcome)

\* The benchmark action: NetworkOptimizer().benchmark_network(), then
\* SystemNetworkTuner().benchmark_current_settings().
CliBenchmark ==
    /\ cliPc = "benchmark"
    /\ \/ nPc = "idle" /\ benchmark_network
       \/ BenchmarkRun
       \/ nPc = "done" /\ \E os \in OsTypes, priv \in BOOLEAN, q \in BbrQueryOutcomes :
             SystemNetworkTuner(os, priv, q)
       \/ ~settings.made /\ \E tcp \in QueryOutcomes, rmem \in QueryOutcomes, wmem \in QueryOutcomes :
             benchmark_current_settings(tcp, rmem, wmem)

\* sys.exit(0) at the end of either action.
cli_exit ==
    /\ \/ cliPc = "tune" /\ tPc = "done" /\ (cliArgs.tune_dry_run \/ pPc = "returned")
       \/ cliPc = "benchmark" /\ settings.made
    /\ cliPc' = "exit0"
    /\ UNCHANGED <<cliArgs, settings, exceptCli>>

NextCli ==
    \/ \E args \in [tune_system : BOOLEAN, tune_dry_run : BOOLEAN, benchmark : BOOLEAN] :
          cli_main(args)
    \/ CliTune
    \/ CliBenchmark
    \/ cli_exit

\* ======================================== apply_optimizations, run twice
\* The parameter a catalogue command assigns.
CommandSetting(cmd) ==
    CASE cmd = DarwinCommands[1] -> Setting("kern.ipc.maxsockbuf", "16777216")
      [] cmd = DarwinCommands[2] -> Setting("net.inet.tcp.sendspace", "1048576")
      [] cmd = DarwinCommands[3] -> Setting("net.inet.tcp.recvspace", "1048576")
      [] cmd = WindowsCommands[1] -> Setting("autotuninglevel", "normal")
      [] cmd = WindowsCommands[2] -> Setting("chimney", "enabled")
      [] cmd = WindowsCommands[3] -> Setting("rss", "enabled")
      [] cmd = WindowsCommands[4] -> Setting("netdma", "enabled")
      [] cmd = WindowsCommands[5] -> Setting("initialrto", "1000")
      [] cmd = WindowsCommands[6] -> Setting("maxsynretransmissions", "4")
      [] OTHER -> SysctlSetting(cmd)

\* Environments: every command ends the same way, or the commands whose value
\* is quoted (cmd.split() breaks it apart) fail and the others succeed.
CmdEnvs == {"all_exit0", "all_nonzero", "all_timeout", "all_error", "quoted_fail"}
EnvOutcome(env, cmd) ==
    CASE env = "all_exit0" -> "exit0"
      [] env = "all_nonzero" -> "nonzero"
      [] env = "all_timeout" -> "timeout"
      [] env = "all_error" -> "error"
      [] env = "quoted_fail" ->
            IF cmd \in {LinuxCommands[3], LinuxCommands[4]} THEN "nonzero" ELSE "exit0"

\* What a command that ended with outcome leaves in the kernel.
KernelAfter(params, cmd, outcome) ==
    IF outcome = "exit0"
      THEN {p \in params : p.key # CommandSetting(cmd).key} \cup {CommandSetting(cmd)}
      ELSE params

NoApply == [made |-> FALSE]

KernelInit ==
    /\ cmdEnv = "unset"
    /\ sysParams = {}
    /\ firstApply = NoApply

\* The environment the process runs in.
environment(env) ==
    /\ cmdEnv = "unset"
    /\ tPc = "none"
    /\ cmdEnv' = env
    /\ UNCHANGED <<sysParams, firstApply, exceptKernel>>

\* The second apply_optimizations(dry_run=False) on the same object.
apply_optimizations_again ==
    /\ tPc = "done"
    /\ ~firstApply.made
    /\ firstApply' = [made |-> TRUE, result |-> tResult, params |-> sysParams,
                      success_count |-> success_count, commands |-> commands]
    /\ ApplyOptimizations(FALSE)
    /\ UNCHANGED <<cmdEnv, sysParams, retryVars, profileVars, measurements, dnsVars,
                   probeVars, lookupVars, getDnsVars, configVars, benchVars, cliVars, browserVars>>

\* One iteration of "for cmd in commands" in the environment cmdEnv.
run_command_env ==
    /\ tPc = "exec"
    /\ cmdIndex <= Len(commands)
    /\ LET cmd == commands[cmdIndex]
           outcome == EnvOutcome(cmdEnv, cmd)
       IN  /\ RunCommand(outcome)
           /\ sysParams' = KernelAfter(sysParams, cmd, outcome)
    /\ UNCHANGED <<cmdEnv, firstApply, retryVars, profileVars, measurements, dnsVars,
                   probeVars, lookupVars, getDnsVars, configVars, benchVars, cliVars, browserVars>>

NextTwice ==
    \/ \E env \in CmdEnvs : environment(env)
    \/ cmdEnv # "unset" /\ \E os \in OsTypes, priv \in BOOLEAN, q \in BbrQueryOutcomes :
          SystemNetworkTuner(os, priv, q)
    \/ tPc = "idle" /\ apply_optimizations(FALSE)
    \/ apply_optimizations_again
    \/ run_command_env
    \/ apply_return

\* ============================================================ Browser.get
Callers == 1..MaxCallers
\* Browser.__instance is None; an object is named after the thread making it.
NoBrowser == 0
NotCalled == [line |-> "idle", early |-> FALSE, got |-> NoBrowser]

\* "with threading.Lock():" makes a new Lock object on every execution.
LockOf(t) == t

BrowserInit ==
    /\ instance = NoBrowser
    /\ getCall = [t \in Callers |-> NotCalled]
    /\ constructed = {}
    /\ locksHeld = {}

At(t, line) == getCall[t].line = line
Goto(t, line) == getCall' = [getCall EXCEPT ![t].line = line]

\* A thread calls Browser.get().
browser_get(t) ==
    /\ At(t, "idle")
    /\ getCall' = [getCall EXCEPT ![t] = [line |-> "19", early |-> instance = NoBrowser,
                                        got |-> NoBrowser]]
    /\ UNCHANGED <<instance, constructed, locksHeld, exceptBrowser>>

\* line 19: "if Browser.__instance is None"
get_first_test(t) ==
    /\ At(t, "19")
    /\ Goto(t, IF instance = NoBrowser THEN "20" ELSE "24")
    /\ UNCHANGED <<instance, constructed, locksHeld, exceptBrowser>>

\* line 20: the new Lock is acquired.
get_lock(t) ==
    /\ At(t, "20")
    /\ LockOf(t) \notin locksHeld
    /\ locksHeld' = locksHeld \cup {LockOf(t)}
    /\ Goto(t, "21")
    /\ UNCHANGED <<instance, constructed, exceptBrowser>>

\* line 21: the second test; Browser() is called, or the with block is left.
get_second_test(t) ==
    /\ At(t, "21")
    /\ IF instance = NoBrowser
         THEN /\ Goto(t, "27")
              /\ UNCHANGED locksHeld
         ELSE /\ Goto(t, "24")
              /\ locksHeld' = locksHeld \ {LockOf(t)}
    /\ UNCHANGED <<instance, constructed, exceptBrowser>>

\* line 27: __init__ tests the singleton; the exception leaves get().
init_test(t) ==
    /\ At(t, "27")
    /\ IF instance # NoBrowser
         THEN /\ Goto(t, "raised")
              /\ locksHeld' = locksHeld \ {LockOf(t)}
         ELSE /\ Goto(t, "30")
              /\ UNCHANGED locksHeld
    /\ UNCHANGED <<instance, constructed, exceptBrowser>>

\* line 30: "Browser.__instance = self"
init_set(t) ==
    /\ At(t, "30")
    /\ instance' = t
    /\ constructed' = constructed \cup {t}
    /\ Goto(t, "31")
    /\ UNCHANGED <<locksHeld, exceptBrowser>>

\* lines 31-55: the options and the driver.
init_driver(t) ==
    /\ At(t, "31")
    /\ Goto(t, "23")
    /\ UNCHANGED <<instance, constructed, locksHeld, exceptBrowser>>

\* line 23: "Browser.__instance = Browser()" stores the object; the with
\* block ends.
get_store(t) ==
    /\ At(t, "23")
    /\ instance' = t
    /\ locksHeld' = locksHeld \ {LockOf(t)}
    /\ Goto(t, "24")
    /\ UNCHANGED <<constructed, exceptBrowser>>

\* line 24: "return Browser.__instance"
get_return(t) ==
    /\ At(t, "24")
    /\ getCall' = [getCall EXCEPT ![t].line = "returned", ![t].got = instance]
    /\ UNCHANGED <<instance, constructed, locksHeld, exceptBrowser>>

NextBrowser ==
    \E t \in Callers :
        \/ browser_get(t)
        \/ get_first_test(t)
        \/ get_lock(t)
        \/ get_second_test(t)
        \/ init_test(t)
        \/ init_set(t)
        \/ init_driver(t)
        \/ get_store(t)
        \/ get_return(t)

\* ========================================================= specifications
Init == RetryInit /\ ProfileInit /\ TunerInit /\ DnsInit /\ ProbeInit /\ LookupInit /\ GetDnsInit /\ ConfigInit /\ BenchInit /\ CliInit /\ KernelInit /\ BrowserInit

SpecRetry == Init /\ [][NextRetry]_vars
SpecProfile == Init /\ [][NextProfile]_vars
SpecPairs == Init /\ [][NextPairs]_vars
SpecTuner == Init /\ [][NextTuner]_vars
SpecDns == Init /\ [][NextDns]_vars
SpecProbe == Init /\ [][NextProbe]_vars
SpecLookup == Init /\ [][NextLookup]_vars
SpecLookupFanOut == Init /\ [][NextLookupFanOut]_vars
SpecGetDns == Init /\ [][NextGetDns]_vars
SpecBenchmark == Init /\ [][NextBenchmark]_vars
SpecCli == Init /\ [][NextCli]_vars
SpecTwice == Init /\ [][NextTwice]_vars
SpecBrowser == Init /\ [][NextBrowser]_vars

\* ================================================================= claims
AllFail(seq) == \A i \in 1..Len(seq) : seq[i] = "fail"

\* C1: smart_retry invokes the operation at most max_retries times; it returns
\* the result of the first successful invocation and invokes nothing after it;
\* when all max_retries (>= 1) invocations fail it raises the failure of the
\* last one.  Fail, fail, ok with max_retries = 3 returns after 3 invocations;
\* fail, fail with max_retries = 2 raises after 2.
C1_RetryContract ==
    /\ Len(invocations) <= max_retries
    /\ \A i \in 1..Len(invocations) : invocations[i] = "ok" => i = Len(invocations)
    /\ (invocations # <<>> /\ invocations[Len(invocations)] = "ok")
          => /\ rPc = "returned"
             /\ rResult = [kind |-> "value", from |-> Len(invocations)]
    /\ (max_retries >= 1 /\ Len(invocations) = max_retries /\ AllFail(invocations))
          => /\ rPc = "raised"
             /\ rResult = [kind |-> "exception", from |-> max_retries]
    /\ rPc = "raised" => Len(invocations) = max_retries /\ AllFail(invocations)
    /\ (max_retries = 3 /\ invocations = <<"fail", "fail", "ok">>)
          => rPc = "returned" /\ rResult.kind = "value"
    /\ (max_retries = 2 /\ invocations = <<"fail", "fail">>)
          => rPc = "raised" /\ rResult.kind = "exception"

C1_Witness ==
    /\ max_retries = 3
    /\ invocations = <<"fail", "fail", "ok">>
    /\ rPc = "returned"

\* C2: get_retry_config(b) is one of three fixed profiles: b < 5 gives
\* (5, 2.0, 30, 512 KiB), 5 <= b < 25 gives (3, 1.5, 20, 2 MiB), b >= 25 gives
\* (2, 1.0, 15, 5 MiB); an omitted bandwidth gives the profile of b = 10 and
\* starts no bandwidth measurement.
IsProfile(p, r, bn, bd, t, c) ==
    /\ p.max_retries = r
    /\ p.backoff_factor.num * bd = bn * p.backoff_factor.den
    /\ p.timeout = t
    /\ p.chunk_size = c

C2_RetryConfigTiers ==
    call.op = "get_retry_config" =>
        /\ measurements = 0
        /\ IF IsNone(call.arg)
              THEN IsProfile(call.result, 3, 3, 2, 20, 2097152)
              ELSE LET n == call.arg.num
                       d == call.arg.den
                   IN  /\ n < 5 * d => IsProfile(call.result, 5, 2, 1, 30, 524288)
                       /\ (5 * d <= n /\ n < 25 * d)
                             => IsProfile(call.result, 3, 3, 2, 20, 2097152)
                       /\ n >= 25 * d => IsProfile(call.result, 2, 1, 1, 15, 5242880)

C2_Witness ==
    /\ call.op = "get_retry_config"
    /\ ~IsNone(call.arg)
    /\ call.arg.num = 5 * call.arg.den
    /\ call.result.max_retries = 3

\* C3: for a supplied bandwidth b >= 0, get_optimal_concurrent_connections(b)
\* is clamp(floor(b / 10) + 2, 2, 16): 3.2 gives 2, 52 gives 7, b >= 140 gives 16.
C3_ConcurrencyClamp ==
    (call.op = "get_optimal_concurrent_connections" /\ call.arg.num >= 0) =>
        LET f == (call.arg.num \div (10 * call.arg.den)) + 2
        IN  /\ call.result = (IF f < 2 THEN 2 ELSE IF f > 16 THEN 16 ELSE f)
            /\ call.result \in 2..16
            /\ call.arg = Rat(32, 10) => call.result = 2
            /\ call.arg = Rat(104, 2) => call.result = 7
            /\ call.arg.num >= 140 * call.arg.den => call.result = 16

C3_Witness ==
    /\ call.op = "get_optimal_concurrent_connections"
    /\ call.arg = Rat(2 * MaxMbps, 2)
    /\ call.result = 16

\* C4: get_optimal_concurrent_connections is monotonic non-decreasing: of two
\* calls with 0 <= b1 <= b2, the result for b1 is at most the result for b2.
C4_ConcurrencyMonotonic ==
    (/\ prev # NoCall
     /\ prev.arg.num >= 0
     /\ RatLE(prev.arg, call.arg)) => prev.result <= call.result

C4_Witness ==
    /\ prev # NoCall
    /\ prev.arg = Rat(32, 10)
    /\ call.arg = Rat(MaxMbps, 1)
    /\ prev.result = 2
    /\ call.result = 16

CommandsRun == SelectSeq(subprocessLog, LAMBDA e : e.kind = "command")

\* C6 (as claimed): apply_optimizations(dry_run=True) runs no subprocess at
\* all, on any OS family and whatever the BBR availability, and reports
\* success without consulting the privilege check.
C6_DryRunNoSubprocess ==
    (tPc = "done" /\ dry_run) =>
        /\ subprocessLog = << >>
        /\ tResult = TRUE
        /\ privChecks = 0

\* C6 (amended): apply_optimizations(dry_run=True) executes no command of the
\* catalogue; the only subprocess it runs is the read-only BBR availability
\* query made on Linux while the catalogue is built (none on the other OS
\* families); it lists the whole catalogue and reports success, privileged or
\* not, without calling the privilege check.
C6_DryRunNoCommand ==
    (tPc = "done" /\ dry_run) =>
        /\ CommandsRun = << >>
        /\ subprocessLog = (IF os_type = "linux"
                              THEN << [kind |-> "query", cmd |-> BbrQueryCommand] >>
                              ELSE << >>)
        /\ exitedZero = 0
        /\ printed = commands
        /\ tResult = TRUE
        /\ privChecks = 0

C6_Witness ==
    /\ tPc = "done"
    /\ dry_run
    /\ ~privileged
    /\ os_type = "linux"
    /\ bbrQuery = "bbr"
    /\ Len(printed) = Len(LinuxCommands) + Len(BbrCommands)
    /\ tResult = TRUE

\* C7: apply_optimizations(dry_run=False) without privilege runs nothing, not
\* even the query of the catalogue construction, and returns False.
C7_PrivilegeDenied ==
    /\ tPc = "exec" => privileged
    /\ (tPc = "done" /\ ~dry_run /\ ~privileged) =>
          /\ subprocessLog = << >>
          /\ exitedZero = 0
          /\ privChecks = 1
          /\ tResult = FALSE

C7_Witness ==
    /\ tPc = "done"
    /\ ~dry_run
    /\ ~privileged
    /\ os_type = "linux"
    /\ bbrQuery = "bbr"
    /\ tResult = FALSE

\* C8: in a privileged non-dry-run apply_optimizations the commands run are
\* the commands of the catalogue, each once and in catalogue order, whatever
\* the outcome of the earlier ones; at the end success_count is the number of
\* commands that exited with status 0.
C8_EveryCommandOnce ==
    (tPc \in {"exec", "done"} /\ ~dry_run /\ privileged) =>
        /\ Len(CommandsRun) <= Len(commands)
        /\ \A i \in 1..Len(CommandsRun) : CommandsRun[i].cmd = commands[i]
        /\ tPc = "exec" => Len(CommandsRun) = cmdIndex - 1
        /\ tPc = "done" => /\ Len(CommandsRun) = Len(commands)
                           /\ success_count = exitedZero

C8_Witness ==
    /\ tPc = "done"
    /\ ~dry_run
    /\ privileged
    /\ Len(CommandsRun) = Len(LinuxCommands) + Len(BbrCommands)
    /\ exitedZero = 7
    /\ success_count = 7

\* C9: a privileged non-dry-run apply_optimizations returns True exactly when
\* at least one command exited with status 0; it returns False when all fail
\* and when the catalogue is empty (unrecognised OS).
C9_AppliedIffOneSuccess ==
    (tPc = "done" /\ ~dry_run /\ privileged) =>
        /\ tResult = (exitedZero > 0)
        /\ commands = << >> => tResult = FALSE
        /\ os_type \notin {"linux", "darwin", "windows"} => tResult = FALSE

C9_Witness ==
    /\ tPc = "done"
    /\ ~dry_run
    /\ privileged
    /\ Len(commands) > 1
    /\ exitedZero = 1
    /\ tResult = TRUE

\* The score of a candidate as the probes gave it: ping latency plus the mean
\* of the successful lookups, infinite without a ping or without a lookup.
ProbedScore(mm) ==
    IF IsInf(mm.ping) \/ IsInf(mm.mean) THEN Inf
    ELSE Rat(mm.ping.num * mm.mean.den + mm.mean.num * mm.ping.den, mm.ping.den * mm.mean.den)

\* C5: benchmark_dns_servers returns the name and addresses of a candidate
\* whose score is the minimum over all candidates, and (None, None) exactly
\* when every score is infinite; a candidate without a ping or without a
\* successful lookup is never returned.
C5_BestDnsIsMinimum ==
    dPc = "done" =>
        LET names == DOMAIN DNS_SERVERS
        IN  /\ DOMAIN measured = names
            /\ (dReturn.name = "None") <=> (\A n \in names : IsInf(ProbedScore(measured[n])))
            /\ dReturn.name = "None" => dReturn.servers = "None"
            /\ dReturn.name # "None" =>
                 /\ dReturn.name \in names
                 /\ dReturn.servers = DNS_SERVERS[dReturn.name]
                 /\ ~IsInf(measured[dReturn.name].ping)
                 /\ ~IsInf(measured[dReturn.name].mean)
                 /\ \A n \in names :
                      ~FLT(ProbedScore(measured[n]), ProbedScore(measured[dReturn.name]))

C5_Witness ==
    /\ dPc = "done"
    /\ dReturn.name = "quad9"
    /\ measured["cloudflare"] = [ping |-> Inf, mean |-> Rat(1, 1)]
    /\ measured["google"] = [ping |-> Rat(1, 1), mean |-> Inf]
    /\ measured["quad9"] = [ping |-> Rat(1, 1), mean |-> Rat(3, 2)]
    /\ measured["opendns"] = [ping |-> Rat(1, 1), mean |-> Rat(5, 3)]

C11_LookupRestoresTimeout ==
    lk[1].pc = "done" =>
        /\ socketTimeout = lk[1].original_dns
        /\ socketTimeout = quietTimeout
        /\ lk[1].outcome = "returned"
        /\ IF lk[1].error = "none" THEN ~IsInf(lk[1].result) /\ lk[1].result.num >= 1
           ELSE IsInf(lk[1].result)

C11_Witness ==
    /\ lk[1].pc = "done"
    /\ lk[1].error = "timeout"
    /\ lk[1].timeout = 5
    /\ lk[1].original_dns = 10
    /\ socketTimeout = 10
    /\ IsInf(lk[1].result)

\* C17: when dns_lookup_test calls are interleaved, no call finds in the
\* default socket timeout a value installed by another call, and once all of
\* them have returned the default socket timeout is what it was before the
\* first one started.
C17_FanOutSharesNoState ==
    /\ \A t \in LookupCalls :
          lk[t].pc # "idle" => lk[t].original_dns = quietTimeout
    /\ ((\A t \in LookupCalls : ~InProgress(lk[t])) /\ (\E t \in LookupCalls : lk[t].pc = "done"))
          => socketTimeout = quietTimeout

\* C12: get_dns_servers(choice) returns the catalogue entry of a named choice
\* without any ping, lookup or benchmark; for 'auto' it returns the addresses
\* the benchmark selected; for any other name it behaves like 'auto' after one
\* fallback step; when every server scored infinite it returns no addresses.
C12_GetDnsServers ==
    gPc = "done" =>
        IF gChoice \in DOMAIN DNS_SERVERS
          THEN /\ gReturn = Servers(DNS_SERVERS[gChoice])
               /\ measured = << >>
               /\ gFallbacks = 0
          ELSE /\ DOMAIN measured = DOMAIN DNS_SERVERS
               /\ gFallbacks = (IF gChoice = "auto" THEN 0 ELSE 1)
               /\ IF \A n \in DOMAIN measured : IsInf(ProbedScore(measured[n]))
                    THEN gReturn = NoServers
                    ELSE /\ gReturn.found
                         /\ \E n \in DOMAIN measured :
                               /\ gReturn.servers = DNS_SERVERS[n]
                               /\ \A o \in DOMAIN measured :
                                     ~FLT(ProbedScore(measured[o]), ProbedScore(measured[n]))
C12_Witness ==
    /\ gPc = "done"
    /\ gChoice = "cloudfare"
    /\ gFallbacks = 1
    /\ gReturn = Servers(DNS_SERVERS["quad9"])

\* C15: smart_retry waits backoff_factor^k seconds after the failed non-last
\* attempt k (from 0): the first wait is 1 second and each later wait is the
\* previous one times backoff_factor; no wait follows a successful attempt or
\* the final failed attempt, so a call waits at most max_retries - 1 times,
\* and every invocation after the first is preceded by its wait.
C15_BackoffSchedule ==
    /\ \A i \in 1..Len(waits) :
          /\ invocations[i] = "fail"
          /\ i = 1 => waits[i].num = waits[i].den
          /\ i > 1 => waits[i].num * waits[i - 1].den * backoff_factor.den
                        = waits[i].den * waits[i - 1].num * backoff_factor.num
    /\ rPc \in {"call", "sleep"} => Len(waits) = Len(invocations)
    /\ (rPc \in {"returned", "raised"} /\ max_retries > 0) =>
          Len(waits) = Len(invocations) - 1
    /\ max_retries > 0 => Len(waits) <= max_retries - 1
    /\ max_retries = 0 => waits = << >>
C15_Witness ==
    /\ rPc = "raised"
    /\ max_retries = 4
    /\ backoff_factor = Rat(15, 10)
    /\ Len(waits) = 3
    /\ waits[3].num * 4 = waits[3].den * 9

\* C16: for every max_retries, 0 included, smart_retry ends by returning the
\* value of a successful invocation or by propagating the failure of its last
\* invocation, never with a result of its own.
C16_NeverOwnResult ==
    rPc \in {"returned", "raised"} =>
        /\ rResult.kind \in {"value", "exception"}
        /\ invocations # << >>

Range(seq) == {seq[i] : i \in DOMAIN seq}

\* C19: on Linux the parameters written by create_persistent_config are
\* exactly the parameters (same keys, same values) that
\* get_network_optimization_commands sets in the same environment, so the
\* bbr / fq settings are persisted if and only if BBR is available.
C19_ConfigMatchesCatalogue ==
    (os_type = "linux" /\ pPc = "returned" /\ pWrite = "ok") =>
        Range(configFile.lines) =
            {SysctlSetting(cmd) : cmd \in Range(get_network_optimization_commands(os_type, bbrQuery))}

\* C20: for an OS family outside linux / darwin / windows the catalogue is
\* empty and built without any system query, and create_persistent_config
\* writes no file and returns False; on darwin and windows the catalogue is
\* non-empty and holds none of the Linux congestion-control commands.
C20_OtherOsFamilies ==
    /\ (tPc # "none" /\ os_type \notin {"linux", "darwin", "windows"}) =>
          /\ get_network_optimization_commands(os_type, bbrQuery) = << >>
          /\ get_network_optimization_commands_runs(os_type) = << >>
          /\ commands = << >>
          /\ subprocessLog = << >>
          /\ pPc = "returned" =>
                /\ pReturn = FALSE
                /\ pWrite = "none"
                /\ configFile = AbsentFile
    /\ os_type \in {"darwin", "windows"} =>
          /\ get_network_optimization_commands(os_type, bbrQuery) # << >>
          /\ Range(get_network_optimization_commands(os_type, bbrQuery)) \cap Range(BbrCommands) = {}
          /\ (tPc = "exec" \/ (tPc = "done" /\ dry_run)) =>
                commands = get_network_optimization_commands(os_type, bbrQuery)
C20_Witness ==
    /\ os_type = "freebsd"
    /\ bbrQuery = "bbr"
    /\ privileged
    /\ tPc = "done"
    /\ ~dry_run
    /\ tResult = FALSE
    /\ pPc = "returned"
    /\ pReturn = FALSE

\* C18: after any sequence of benchmark_network / benchmark_dns_servers calls
\* on one NetworkOptimizer, the best_dns in the report of the latest
\* benchmark_network is the selection made in that same run: None whenever
\* every candidate scored infinite in that run, whatever earlier runs selected.
C18_ReportIsThisRunsSelection ==
    nPc = "done" => report.best_dns = runSelection

\* C13: in the CLI tune action run without dry-run, after the privilege check
\* has failed no tuning command is executed and no write of the persistent
\* configuration file is attempted before the process exits.
C13_DeniedTuneHalts ==
    (/\ cliPc \in {"tune", "exit0"}
     /\ CliAction(cliArgs) = "tune"
     /\ ~cliArgs.tune_dry_run
     /\ tPc = "done"
     /\ PrivilegeDenied(dry_run, privileged)) =>
        /\ CommandsRun = << >>
        /\ pWrite = "none"

\* C14: the benchmark path (benchmark_network and the CLI benchmark action
\* with benchmark_current_settings) runs no tuning command, never calls
\* apply_optimizations and never writes the persistent configuration file:
\* every subprocess it starts is a read-only query.
C14_BenchmarkReadOnly ==
    (~cliArgs.tune_system /\ ~cliArgs.tune_dry_run) =>
        /\ cliPc # "tune"
        /\ tPc \in {"none", "idle"}
        /\ commands = << >>
        /\ \A i \in DOMAIN subprocessLog : subprocessLog[i].kind = "query"
        /\ pPc = "none"
        /\ pWrite = "none"
        /\ configFile = AbsentFile
C14_Witness ==
    /\ cliPc = "exit0"
    /\ cliArgs.benchmark
    /\ ~cliArgs.tune_system
    /\ report.made
    /\ settings.made
    /\ os_type = "linux"
    /\ privileged
    /\ Len(subprocessLog) = 4

\* C22: every report of benchmark_network is consistent: the bandwidth was
\* measured exactly once in that run, optimal_connections is the concurrency
\* derived from the bandwidth_mbps of the same report, and it lies in [2, 16],
\* also when the measurement failed and fell back to 10.0 (which gives 3).
C22_ReportConsistent ==
    nPc = "done" =>
        LET b == report.bandwidth_mbps
            f == (b.num \div (10 * b.den)) + 2
        IN  /\ report.made
            /\ runMeasured = 1
            /\ b.den > 0 /\ b.num >= 0
            /\ report.optimal_connections = (IF f > 16 THEN 16 ELSE f)
            /\ report.optimal_connections \in 2..16
            /\ bwError # "none" =>
                  /\ b = Rat(10, 1)
                  /\ report.optimal_connections = 3
C22_Witness ==
    /\ nPc = "done"
    /\ bwError = "ConnectionError"
    /\ runMeasured = 1
    /\ report.bandwidth_mbps = Rat(10, 1)
    /\ report.optimal_connections = 3

\* C21: with privilege and an unchanged environment, a second
\* apply_optimizations(dry_run=False) leaves every tunable parameter as the
\* first left it and returns the same result; nothing the first invocation
\* counted or collected is seen by the second.
C21_ApplyTwiceSameAsOnce ==
    (firstApply.made /\ tPc = "done" /\ privileged) =>
        /\ tResult = firstApply.result
        /\ sysParams = firstApply.params
        /\ success_count = firstApply.success_count
        /\ commands = firstApply.commands
        /\ Len(CommandsRun) = Len(commands)
C21_Witness ==
    /\ firstApply.made
    /\ tPc = "done"
    /\ privileged
    /\ os_type = "linux"
    /\ bbrQuery = "bbr"
    /\ cmdEnv = "quoted_fail"
    /\ tResult = TRUE
    /\ success_count = 13
    /\ Cardinality(sysParams) = 13

\* C23: under any interleaving of Browser.get() calls made while no instance
\* exists yet, exactly one Browser is constructed, every caller receives that
\* same instance, and no caller fails with 'This class is a singleton!'.
C23_BrowserSingleton ==
    LET early == {t \in Callers : getCall[t].early}
    IN  /\ Cardinality(constructed) <= 1
        /\ \A t \in early : getCall[t].line # "raised"
        /\ \A t \in early : getCall[t].line = "returned" =>
              /\ constructed = {getCall[t].got}
              /\ \A u \in early : getCall[u].line = "returned" => getCall[u].got = getCall[t].got
====
